---- MODULE Spec2Model ----
(***************************************************************************)
(* TMarSel (src/TMarSel/TMarSel.py): selection of k marker gene families.  *)
(*                                                                         *)
(* Three specifications over one set of variables:                         *)
(*   Spec      - run_TMarSel from the call of                              *)
(*               greedy_power_mean_sample_final to save_marker_orfs        *)
(*               (lines 444-451); the copy-number matrix is an input.      *)
(*   SpecBuild - run_TMarSel from filter_copies to                         *)
(*               build_copy_number_matrix (lines 428-434).                 *)
(*   SpecSparse - run_TMarSel from remove_genes to save_marker_orfs        *)
(*               (lines 438-451); the built matrix is an input.            *)
(*                                                                         *)
(* Numbers.  The greedy selector works on floats (matrix + pseudocount).   *)
(* The model keeps them exactly, as integers counting tenths:              *)
(* 0.1 is 1, 4.1 is 41.  Thresholds of filter_copies and min_markers are   *)
(* kept as integers counting halves (0.5 is 1, 1.5 is 3); on such values   *)
(* the float products of the code are exact.                               *)
(* Row indices are 0-based as in the code; positions of a TLA+ sequence    *)
(* are 1-based, so numpy position c is position c + 1 here.                *)
(***************************************************************************)
EXTENDS Integers, Sequences, FiniteSets

VARIABLES
    pc,              \* position in run_TMarSel
    err,             \* which exception ended the run ("none" if none)
    adj,             \* adj_mod, the caller's matrix: [n, m, rows]
    k,               \* number of markers asked for
    p,               \* exponent: [kind |-> "int"|"str"|"float", val |-> ...]
    pseudocount,     \* in tenths
    data,            \* greedy: working copy of the matrix (tenths), shrinking
    counts,          \* greedy: cumulative coverage (tenths)
    indices,         \* greedy: original index of each remaining row of data
    selected,        \* greedy: indices selected so far, in order
    i,               \* greedy: iterations of the loop completed
    markers_index,   \* the array greedy_power_mean_sample_final returned
    min_markers,     \* [isfloat, twice]: the value, counted in halves
    genomes_to_keep, \* result of get_genomes_to_keep
    output_written,  \* save_marker_orfs has created the output
    df,              \* annotation records: [genome, gene_family, bit_score]
    threshold,       \* filter_copies threshold, counted in halves
    filtered_df,     \* result of filter_copies
    edges_genes,     \* get_edges
    edges_genomes,   \* get_edges
    built,           \* result of build_copy_number_matrix: [adj, genomes, genes]
    remove,          \* result of remove_genes: row indices of built.adj
    genes_mod,       \* gene labels of the rows of adj (adj_mod)
    markers_names    \* save_marker_orfs: the names of the selected rows

vars == <<pc, err, adj, k, p, pseudocount, data, counts, indices, selected, i,
          markers_index, min_markers, genomes_to_keep, output_written,
          df, threshold, filtered_df, edges_genes, edges_genomes, built,
          remove, genes_mod, markers_names>>

selVars == <<adj, k, p, pseudocount, data, counts, indices, selected, i,
             markers_index, min_markers, genomes_to_keep, output_written>>

buildVars == <<df, threshold, filtered_df, edges_genes, edges_genomes, built>>

sparseVars == <<remove, genes_mod, markers_names>>

----------------------------------------------------------------------------
(* Bounds of the inputs *)

\* most rows (gene families) of a generic input matrix
MaxRows == 3

\* numbers of columns (genomes) of the generic input matrices
GenomeCounts == {0, 1, 2}

\* entries of the generic input matrices (presence / absence of a family)
CellValues == {0, 1}

----------------------------------------------------------------------------
(* Helpers on sequences *)

RECURSIVE SumSeq(_)
SumSeq(v) == IF v = <<>> THEN 0 ELSE Head(v) + SumSeq(Tail(v))

RECURSIVE ProdSeq(_)
ProdSeq(v) == IF v = <<>> THEN 1 ELSE Head(v) * ProdSeq(Tail(v))

RECURSIVE Pow(_, _)
Pow(x, e) == IF e = 0 THEN 1 ELSE x * Pow(x, e - 1)

MinOf(v) == CHOOSE x \in {v[s] : s \in DOMAIN v} : \A s \in DOMAIN v : x <= v[s]

MaxOf(v) == CHOOSE x \in {v[s] : s \in DOMAIN v} : \A s \in DOMAIN v : x >= v[s]

Range(v) == {v[j] : j \in DOMAIN v}

\* np.arange(n)
Arange(n) == [j \in 1..n |-> j - 1]

\* np.zeros(m, dtype = int)
Zeros(m) == [s \in 1..m |-> 0]

----------------------------------------------------------------------------
(* greedy_power_mean_sample_final: the pieces *)

\* lines 242, 246, 249: the three checks at entry
IsEmptyShape(n, m) == n = 0 \/ m = 0

OnlyZeroes(rows) == \A j \in DOMAIN rows : \A s \in DOMAIN rows[j] : rows[j][s] = 0

\* variant: k = n let through
KTooLarge_Strict(kk, n) == kk > n

KTooLarge(kk, n) == kk >= n

\* line 253: data = data + pseudocount (a new array; in tenths)
AddPseudocount(rows, c) ==
    [j \in DOMAIN rows |-> [s \in DOMAIN rows[j] |-> 10 * rows[j][s] + c]]

\* variant: the running totals are not added
Sums_WithoutCounts(cnt, d) == d

\* line 268: sums_ = counts + data (counts broadcast over the rows)
Sums(cnt, d) == [j \in DOMAIN d |-> [s \in DOMAIN cnt |-> cnt[s] + d[j][s]]]

\* lines 271-278: which branch of the exponent dispatch is taken
IsIntP(pp) == pp.kind = "int"

IsMinP(pp) == pp.kind = "str" /\ pp.val = "min"

IsMaxP(pp) == pp.kind = "str" /\ pp.val = "max"

ValidP(pp) == IsIntP(pp) \/ IsMinP(pp) \/ IsMaxP(pp)

\* Sum over s of 1 / x[s]^q, as the fraction N / D with D = product of x[s]^q
InvPowNum(x, q) ==
    SumSeq([s \in DOMAIN x |->
        ProdSeq([t \in DOMAIN x |-> IF t = s THEN 1 ELSE Pow(x[t], q)])])

InvPowDen(x, q) == ProdSeq([t \in DOMAIN x |-> Pow(x[t], q)])

\* scipy.stats.pmean(x, e) < scipy.stats.pmean(y, e) for vectors of positive
\* numbers of one length: e > 0 compares the sums of e-th powers, e = 0 is
\* the geometric mean (compares the products), e < 0 reverses the order of
\* the sums of the (negative) powers.
PMeanLess(e, x, y) ==
    IF e > 0 THEN SumSeq([s \in DOMAIN x |-> Pow(x[s], e)])
                    < SumSeq([s \in DOMAIN y |-> Pow(y[s], e)])
    ELSE IF e = 0 THEN ProdSeq(x) < ProdSeq(y)
    ELSE InvPowNum(x, -e) * InvPowDen(y, -e) > InvPowNum(y, -e) * InvPowDen(x, -e)

\* variant: 'min' dispatched to the maximum
ScoreLess_MinAsMax(pp, x, y) ==
    IF IsIntP(pp) THEN PMeanLess(pp.val, x, y) ELSE MaxOf(x) < MaxOf(y)

\* the score of trial vector x is strictly below the score of y
ScoreLess(pp, x, y) ==
    IF IsIntP(pp) THEN PMeanLess(pp.val, x, y)
    ELSE IF IsMinP(pp) THEN MinOf(x) < MinOf(y)
    ELSE MaxOf(x) < MaxOf(y)

FirstMax(pp, sums) ==
    CHOOSE j \in DOMAIN sums :
        /\ \A j2 \in DOMAIN sums : ~ScoreLess(pp, sums[j], sums[j2])
        /\ \A j2 \in 1..(j - 1) : ScoreLess(pp, sums[j2], sums[j])

\* variant: ties go to the last position of the maximum
LastMax(pp, sums) ==
    CHOOSE j \in DOMAIN sums :
        /\ \A j2 \in DOMAIN sums : ~ScoreLess(pp, sums[j], sums[j2])
        /\ \A j2 \in (j + 1)..Len(sums) : ScoreLess(pp, sums[j2], sums[j])

Argmax_LastOccurrence(pp, sums) == LastMax(pp, sums) - 1

\* lines 272, 274, 276: scores.argmax(), the first position of the maximum
\* (0-based, as numpy returns it)
Argmax(pp, sums) == FirstMax(pp, sums) - 1

\* line 287: np.delete(data, choice, axis = 0)
DeleteRow(d, choice) ==
    [j \in 1..(Len(d) - 1) |-> IF j <= choice THEN d[j] ELSE d[j + 1]]

\* variant: the last position is dropped, not the chosen one
DeleteIndex_Last(ind, choice) == [j \in 1..(Len(ind) - 1) |-> ind[j]]

\* line 290: np.delete(indices, choice)
DeleteIndex(ind, choice) ==
    [j \in 1..(Len(ind) - 1) |-> IF j <= choice THEN ind[j] ELSE ind[j + 1]]

\* line 284: counts = sums_[choice]
UpdateCounts(sums, choice) == sums[choice + 1]

----------------------------------------------------------------------------
(* get_genomes_to_keep *)

\* line 218, in halves
Threshold(mm, kk) ==
    IF mm.isfloat /\ 0 <= mm.twice /\ mm.twice <= 2 THEN mm.twice * kk ELSE mm.twice

\* line 219: adj[markers_index].sum(axis = 0)
MarkerTotals(a, mi) ==
    [s \in 1..a.m |-> SumSeq([t \in DOMAIN mi |-> a.rows[mi[t] + 1][s]])]

\* variant: > in place of >=
KeepMask_Strict(totals, thr) == [s \in DOMAIN totals |-> 2 * totals[s] > thr]

\* line 219: genomes[totals >= threshold]; genome labels are the column numbers
KeepMask(totals, thr) == [s \in DOMAIN totals |-> 2 * totals[s] >= thr]

GenomesKept(a, kk, mi, mm) ==
    LET mask == KeepMask(MarkerTotals(a, mi), Threshold(mm, kk))
    IN  SelectSeq(Arange(a.m), LAMBDA g : mask[g + 1])

----------------------------------------------------------------------------
(* filter_copies, get_edges, build_copy_number_matrix: the pieces *)

\* line 164: 0 <= threshold <= 1 (threshold in halves)
ThresholdInRange(t) == 0 <= t /\ t <= 2

\* line 167: groupby(['genome', 'gene_family'])['bit_score'].transform('max'):
\* for every record the largest bit_score of its group
MaxScores(d) ==
    [r \in DOMAIN d |->
        MaxOf([q \in DOMAIN d |->
            IF d[q].genome = d[r].genome /\ d[q].gene_family = d[r].gene_family
            THEN d[q].bit_score ELSE d[r].bit_score])]

\* variant: > in place of >=
RetainCopy_Strict(score, maxscore, t) == 2 * score > maxscore * t

\* line 169: bit_score >= max_score * threshold (t in halves)
RetainCopy(score, maxscore, t) == 2 * score >= maxscore * t

\* line 169: df[mask], the records kept in their order; orf is the index of
\* the table and numbers the records of df
FilterByMask(d, t) ==
    LET max_scores == MaxScores(d)
    IN  SelectSeq(d, LAMBDA rec : RetainCopy(rec.bit_score, max_scores[rec.orf], t))

\* lines 174-175
Column(d, name) == [r \in DOMAIN d |-> d[r][name]]

RECURSIVE SortedSeq(_)
SortedSeq(S) ==
    IF S = {} THEN <<>>
    ELSE LET least == CHOOSE x \in S : \A y \in S : x <= y
         IN  <<least>> \o SortedSeq(S \ {least})

\* lines 181-182: np.unique(v, return_inverse = True): the sorted distinct
\* values, and for every element its 0-based position among them
Unique(v) == SortedSeq(Range(v))

UniqueInverse(v) ==
    LET u == Unique(v)
    IN  [e \in DOMAIN v |-> (CHOOSE j \in DOMAIN u : u[j] = v[e]) - 1]

\* variant: the row stride is the number of genes
FlatIndex_ByGenes(gi, si, ngenes, ngenomes) == gi * ngenes + si

\* line 184: genes_indices * len(genomes) + genomes_indices
FlatIndex(gi, si, ngenes, ngenomes) == gi * ngenomes + si

\* line 184: np.bincount(x, minlength): bin b counts the elements equal to b;
\* the result has max(minlength, max(x) + 1) bins
Bincount(x, minlength) ==
    LET top == IF x = <<>> THEN 0 ELSE MaxOf(x) + 1
        len == IF top > minlength THEN top ELSE minlength
    IN  [b \in 1..len |-> Cardinality({e \in DOMAIN x : x[e] = b - 1})]

\* line 186: counts.reshape(nr, nc), row-major
Reshape(c, nr, nc) == [r \in 1..nr |-> [s \in 1..nc |-> c[(r - 1) * nc + s]]]

----------------------------------------------------------------------------
(* remove_genes and the look-up of the marker names *)

\* line 201: a gene family must be present in at least this many genomes
MinGenomes == 4

\* line 201: np.count_nonzero(adj, axis = 1), for one row
CountNonzero(row) == Cardinality({s \in DOMAIN row : row[s] # 0})

\* variant: a family present in exactly MinGenomes genomes is removed too
TooSparse_Inclusive(row) == CountNonzero(row) <= MinGenomes

\* line 201: count_nonzero < 4
TooSparse(row) == CountNonzero(row) < MinGenomes

\* line 201: np.where(mask)[0]: the 0-based positions of the rows that are
\* too sparse, in increasing order
RemoveGenes(rows) ==
    SelectSeq(Arange(Len(rows)), LAMBDA j : TooSparse(rows[j + 1]))

RECURSIVE KeepFrom(_, _, _)
KeepFrom(v, rem, j) ==
    IF j > Len(v) THEN <<>>
    ELSE (IF (j - 1) \in Range(rem) THEN <<>> ELSE <<v[j]>>) \o KeepFrom(v, rem, j + 1)

\* lines 439, 440: np.delete(v, remove, axis = 0)
Delete(v, rem) == KeepFrom(v, rem, 1)

\* line 321: genes_mod[markers_index]
MarkerNames(names, mi) == [t \in DOMAIN mi |-> names[mi[t] + 1]]

\* lines 181, 187: gene labels are sorted and distinct; row j carries 10 * j
GeneLabels(n) == [j \in 1..n |-> 10 * j]

----------------------------------------------------------------------------
(* Inputs of Spec *)

MatricesOf(n, m) == [1..n -> [1..m -> CellValues]]

Matrix(rows, m) == [n |-> Len(rows), m |-> m, rows |-> rows]

StrP(s) == [kind |-> "str", val |-> s]

IntP(e) == [kind |-> "int", val |-> e]

\* 'min', 'max', integers, and two values that are neither: an unknown
\* string and the float 2.5 (val in halves)
PValues == {StrP("min"), StrP("max"), IntP(-1), IntP(0), IntP(2),
            StrP("median"), [kind |-> "float", val |-> 5]}

\* 0.1 (the value run_TMarSel passes, line 444) and 0.5
Pseudocounts == {1, 5}

\* the worked example of the greedy selector: 4 genes x 3 genomes, k = 3,
\* p = 'min', pseudocount 0.1
WorkedExample ==
    [adj |-> Matrix(<< <<4, 0, 0>>, <<0, 4, 0>>, <<0, 0, 4>>, <<1, 1, 1>> >>, 3),
     k |-> 3, p |-> StrP("min"), pseudocount |-> 1]

\* an input whose three selected rows total [5, 3, 1] per genome
CoverageExample ==
    [adj |-> Matrix(<< <<2, 1, 0>>, <<2, 1, 0>>, <<1, 1, 1>>, <<0, 0, 0>> >>, 3),
     k |-> 3, p |-> StrP("max"), pseudocount |-> 1]

ExampleInputs == {WorkedExample, CoverageExample}

\* min_markers as the command line parses it (lines 385-386): a float when
\* the text holds a '.', else an int.  Floats -0.5, 0.5, 1.0, 1.5;
\* ints -1, 2.
MinMarkersValues ==
    {[isfloat |-> TRUE, twice |-> t] : t \in {-1, 1, 2, 3}}
        \cup {[isfloat |-> FALSE, twice |-> 2 * c] : c \in {-1, 2}}

NoBuild ==
    /\ df = <<>>
    /\ threshold = 0
    /\ filtered_df = <<>>
    /\ edges_genes = <<>>
    /\ edges_genomes = <<>>
    /\ built = <<>>

----------------------------------------------------------------------------
(* Spec: run_TMarSel, lines 444-451 *)

Init ==
    /\ pc = "greedy_entry"
    /\ err = "none"
    /\ \/ \E n \in 0..MaxRows, m \in GenomeCounts :
            /\ \E rows \in MatricesOf(n, m) : adj = Matrix(rows, m)
            /\ k \in 0..(n + 1)
            /\ p \in PValues
            /\ pseudocount \in Pseudocounts
       \/ \E in \in ExampleInputs :
            /\ adj = in.adj
            /\ k = in.k
            /\ p = in.p
            /\ pseudocount = in.pseudocount
    /\ data = <<>>
    /\ counts = <<>>
    /\ indices = <<>>
    /\ selected = <<>>
    /\ i = 0
    /\ markers_index = <<>>
    /\ min_markers = [isfloat |-> FALSE, twice |-> 2]
    /\ genomes_to_keep = <<>>
    /\ output_written = FALSE
    /\ remove = <<>>
    /\ genes_mod = GeneLabels(adj.n)
    /\ markers_names = <<>>
    /\ NoBuild

Raise(what) ==
    /\ pc' = "error"
    /\ err' = what

\* lines 239-262: the checks at entry and the set-up of the loop
GreedyEntry ==
    /\ pc = "greedy_entry"
    /\ IF IsEmptyShape(adj.n, adj.m)
         THEN Raise("Matrix is empty!") /\ UNCHANGED <<data, counts, indices>>
       ELSE IF OnlyZeroes(adj.rows)
         THEN Raise("Matrix only contains 0's") /\ UNCHANGED <<data, counts, indices>>
       ELSE IF KTooLarge(k, adj.n)
         THEN Raise("k should be smaller than n") /\ UNCHANGED <<data, counts, indices>>
       ELSE /\ pc' = "greedy_loop"
            /\ err' = err
            /\ data' = AddPseudocount(adj.rows, pseudocount)
            /\ counts' = Zeros(adj.m)
            /\ indices' = Arange(adj.n)
    /\ selected' = <<>>
    /\ i' = 0
    /\ UNCHANGED <<adj, k, p, pseudocount, markers_index, min_markers,
                   genomes_to_keep, output_written>>
    /\ UNCHANGED buildVars
    /\ UNCHANGED sparseVars

\* lines 266-293: one iteration of the loop
GreedyIteration ==
    /\ pc = "greedy_loop"
    /\ i < k
    /\ LET sums_ == Sums(counts, data)
       IN  IF ~ValidP(p)
             THEN /\ Raise("Invalid p")
                  /\ UNCHANGED <<data, counts, indices, selected, i>>
             ELSE LET choice == Argmax(p, sums_)
                  IN  /\ selected' = Append(selected, indices[choice + 1])
                      /\ counts' = UpdateCounts(sums_, choice)
                      /\ data' = DeleteRow(data, choice)
                      /\ indices' = DeleteIndex(indices, choice)
                      /\ i' = i + 1
                      /\ UNCHANGED <<pc, err>>
    /\ UNCHANGED <<adj, k, p, pseudocount, markers_index, min_markers,
                   genomes_to_keep, output_written>>
    /\ UNCHANGED buildVars
    /\ UNCHANGED sparseVars

\* line 295 (range(k) is exhausted): return np.array(selected)
GreedyReturn ==
    /\ pc = "greedy_loop"
    /\ i >= k
    /\ markers_index' = selected
    /\ pc' = "greedy_returned"
    /\ UNCHANGED <<err, adj, k, p, pseudocount, data, counts, indices, selected, i,
                   min_markers, genomes_to_keep, output_written>>
    /\ UNCHANGED buildVars
    /\ UNCHANGED sparseVars

\* line 447 with lines 218-219.  np.array([]) of an empty selection is a
\* float array, which numpy refuses as an index (IndexError).
GetGenomesToKeep ==
    /\ pc = "greedy_returned"
    /\ \E mm \in MinMarkersValues :
        /\ min_markers' = mm
        /\ IF markers_index = <<>>
             THEN Raise("IndexError") /\ UNCHANGED genomes_to_keep
             ELSE /\ genomes_to_keep' = GenomesKept(adj, k, markers_index, mm)
                  /\ pc' = "genomes_kept"
                  /\ err' = err
    /\ UNCHANGED <<adj, k, p, pseudocount, data, counts, indices, selected, i,
                   markers_index, output_written>>
    /\ UNCHANGED buildVars
    /\ UNCHANGED sparseVars

\* line 451: save_marker_orfs looks up the marker names (line 321) and
\* creates the output directories and files
SaveMarkerOrfs ==
    /\ pc = "genomes_kept"
    /\ markers_names' = MarkerNames(genes_mod, markers_index)
    /\ output_written' = TRUE
    /\ pc' = "done"
    /\ UNCHANGED <<err, adj, k, p, pseudocount, data, counts, indices, selected, i,
                   markers_index, min_markers, genomes_to_keep>>
    /\ UNCHANGED buildVars
    /\ UNCHANGED <<remove, genes_mod>>

Next ==
    \/ GreedyEntry
    \/ GreedyIteration
    \/ GreedyReturn
    \/ GetGenomesToKeep
    \/ SaveMarkerOrfs

Spec == Init /\ [][Next]_vars

----------------------------------------------------------------------------
(* Properties of Spec.  The words of a property are spelled out on the     *)
(* input (adj, k, p, pseudocount), not through the operators above.        *)

NonZeroInput == \E j \in 1..adj.n : \E s \in 1..adj.m : adj.rows[j][s] # 0

ExponentAllowed ==
    \/ p.kind = "int"
    \/ p.kind = "str" /\ p.val \in {"min", "max"}

AfterReturn == pc \in {"greedy_returned", "genomes_kept", "done"}

NoRepeats(v) == \A a, b \in DOMAIN v : a # b => v[a] # v[b]

\* C1: for a non-empty matrix that is not all zero, 1 <= k < n and an
\* allowed p, the call never fails; after i iterations selected holds i
\* pairwise distinct indices of 0..n-1, indices holds exactly the other
\* n - i indices, and the call returns after exactly k iterations with
\* exactly k indices.
C1_SelectsKDistinctRows ==
    (adj.n >= 1 /\ adj.m >= 1 /\ NonZeroInput /\ 1 <= k /\ k < adj.n /\ ExponentAllowed)
    => /\ pc # "error"
       /\ pc # "greedy_entry" =>
            /\ Len(selected) = i
            /\ i <= k
            /\ NoRepeats(selected)
            /\ Range(selected) \subseteq 0..(adj.n - 1)
            /\ Len(indices) = adj.n - i
            /\ Range(indices) = (0..(adj.n - 1)) \ Range(selected)
       /\ AfterReturn =>
            /\ i = k
            /\ markers_index = selected
            /\ Len(markers_index) = k

C1_Witness ==
    /\ pc = "greedy_returned"
    /\ adj.n = 3
    /\ k = 2
    /\ p.kind = "int"
    /\ Len(markers_index) = 2
    /\ markers_index[1] # markers_index[2]

\* C2: a matrix of shape (0, m) or (n, 0), an all-zero matrix, or k >= n
\* ends the call in an error at entry: the loop is never set up, no row is
\* selected, nothing is returned and no output is written.
C2_DegenerateInputRejected ==
    (adj.n = 0 \/ adj.m = 0 \/ ~NonZeroInput \/ k >= adj.n)
    => /\ pc \in {"greedy_entry", "error"}
       /\ pc = "error" =>
            err \in {"Matrix is empty!", "Matrix only contains 0's",
                     "k should be smaller than n"}
       /\ data = <<>>
       /\ selected = <<>>
       /\ i = 0
       /\ markers_index = <<>>
       /\ genomes_to_keep = <<>>
       /\ ~output_written

C2_Witness ==
    /\ pc = "error"
    /\ err = "k should be smaller than n"
    /\ adj.n = 3
    /\ adj.m = 2
    /\ NonZeroInput
    /\ k = adj.n

\* C3: when the three other checks pass (non-empty, not all zero, k < n)
\* and p is neither an integer nor 'min' / 'max', the call ends in the
\* 'invalid exponent' error and never returns a selection.
C3_InvalidExponentRejected ==
    (adj.n >= 1 /\ adj.m >= 1 /\ NonZeroInput /\ k < adj.n /\ ~ExponentAllowed)
    => /\ ~AfterReturn
       /\ pc = "error" => err = "Invalid p"
       /\ selected = <<>>

\* C4: get_genomes_to_keep returns no genome set when min_markers is
\* negative or a float greater than 1.
C4_InvalidMinMarkersRejected ==
    (pc \in {"genomes_kept", "done"})
    => ~(min_markers.twice < 0 \/ (min_markers.isfloat /\ min_markers.twice > 2))

IsWorkedExample ==
    /\ adj = WorkedExample.adj
    /\ k = 3
    /\ p.kind = "str" /\ p.val = "min"
    /\ pseudocount = 1

\* C5 as stated: on the worked example the all-ones row (index 3) is
\* selected first and after the third selection every column of counts is
\* at least 4.1.
C5_WorkedExampleAsStated ==
    IsWorkedExample
    => /\ Len(selected) >= 1 => selected[1] = 3
       /\ Len(selected) = 3 => \A s \in 1..3 : counts[s] >= 41

\* C5 as amended: on the worked example the all-ones row (index 3) is
\* selected first, then rows 0 and 1; after the third selection counts is
\* [5.3, 5.3, 1.3]: the genomes of the two selected single-genome rows are
\* at least 4.1, the genome of the row left out is at 1.3.
C5_WorkedExample ==
    IsWorkedExample
    => /\ Len(selected) >= 1 => selected[1] = 3
       /\ Len(selected) = 3 =>
            /\ selected = <<3, 0, 1>>
            /\ counts = <<53, 53, 13>>

C5_Witness ==
    /\ IsWorkedExample
    /\ pc = "greedy_returned"
    /\ Len(selected) = 3

\* the trial vector of original row g after the first t - 1 selections
C6_CountsBefore(t) ==
    [s \in 1..adj.m |->
        SumSeq([u \in 1..(t - 1) |-> 10 * adj.rows[selected[u] + 1][s] + pseudocount])]

C6_Trial(t, g) ==
    [s \in 1..adj.m |-> C6_CountsBefore(t)[s] + 10 * adj.rows[g + 1][s] + pseudocount]

C6_Unselected(t) == (0..(adj.n - 1)) \ {selected[u] : u \in 1..(t - 1)}

\* C6: the t-th selected index is the smallest original index among the
\* rows not selected before whose trial vector has the maximum score, and
\* row j of the shrunken data is input row indices[j] plus the pseudocount.
C6_SmallestIndexOfMaximum ==
    /\ \A t \in 1..Len(selected) :
        LET g == selected[t]
        IN  /\ g \in C6_Unselected(t)
            /\ \A h \in C6_Unselected(t) :
                /\ ~ScoreLess(p, C6_Trial(t, g), C6_Trial(t, h))
                /\ h < g => ScoreLess(p, C6_Trial(t, h), C6_Trial(t, g))
    /\ \A j \in 1..Len(data) :
        data[j] = [s \in 1..adj.m |-> 10 * adj.rows[indices[j] + 1][s] + pseudocount]

\* a tie between the first two rows, broken in favour of row 0, then row 1
C6_Witness ==
    /\ pc = "greedy_returned"
    /\ adj.n = 3
    /\ adj.rows[1] = adj.rows[2]
    /\ selected = <<0, 1>>

C7_Total(s) == SumSeq([t \in DOMAIN markers_index |-> adj.rows[markers_index[t] + 1][s]])

\* twice tau: min_markers * k for a float in [0, 1], min_markers for an int
C7_TwiceTau == IF min_markers.isfloat THEN min_markers.twice * k ELSE min_markers.twice

\* C7: for min_markers a float in [0, 1] or an int, get_genomes_to_keep
\* returns, in column order, exactly the genomes whose total over the
\* selected rows of the raw matrix is >= tau; totals [5, 3, 1] with k = 3
\* and min_markers = 0.5 keep the first two genomes.
C7_KeepsGenomesAtOrAboveTau ==
    (/\ pc \in {"genomes_kept", "done"}
     /\ ~min_markers.isfloat \/ (0 <= min_markers.twice /\ min_markers.twice <= 2))
    => /\ Range(genomes_to_keep) = {s - 1 : s \in {c \in 1..adj.m : 2 * C7_Total(c) >= C7_TwiceTau}}
       /\ \A a, b \in DOMAIN genomes_to_keep : a < b => genomes_to_keep[a] < genomes_to_keep[b]
       /\ (adj = CoverageExample.adj /\ k = 3 /\ min_markers = [isfloat |-> TRUE, twice |-> 1])
            => /\ [s \in 1..3 |-> C7_Total(s)] = <<5, 3, 1>>
               /\ genomes_to_keep = <<0, 1>>

C7_Witness ==
    /\ pc = "genomes_kept"
    /\ adj = CoverageExample.adj
    /\ k = 3
    /\ min_markers = [isfloat |-> TRUE, twice |-> 1]
    /\ genomes_to_keep = <<0, 1>>

C10_CountsOfSelected ==
    [s \in 1..adj.m |->
        SumSeq([u \in DOMAIN selected |-> 10 * adj.rows[selected[u] + 1][s] + pseudocount])]

\* C10: in the loop counts starts at all zeros, is after every iteration the
\* sum over the selected rows of (matrix value + pseudocount), and no
\* iteration decreases any column.
C10_CoverageNonDecreasing ==
    /\ [](pc = "greedy_loop" /\ i = 0 => counts = [s \in 1..adj.m |-> 0])
    /\ [](pc = "greedy_loop" => counts = C10_CountsOfSelected)
    /\ [][pc = "greedy_loop" => \A s \in 1..adj.m : counts'[s] >= counts[s]]_vars

C10_Witness ==
    /\ pc = "greedy_loop"
    /\ i = 2
    /\ \E s \in 1..adj.m : counts[s] > 2 * pseudocount

----------------------------------------------------------------------------
(* SpecBuild: run_TMarSel, lines 428-434 *)

\* most annotation records of an input table
MaxRecords == 3

GenomeLabels == {1, 2}

FamilyLabels == {1, 2}

\* bit scores (finite, non-negative)
BitScores == {0, 7, 10}

\* thresholds -0.5, 0.0, 0.5, 1.0, 1.5 (in halves)
ThresholdValues == {-1, 0, 1, 2, 3}

NoSelection ==
    /\ adj = [n |-> 0, m |-> 0, rows |-> <<>>]
    /\ k = 0
    /\ p = [kind |-> "int", val |-> 0]
    /\ pseudocount = 1
    /\ data = <<>>
    /\ counts = <<>>
    /\ indices = <<>>
    /\ selected = <<>>
    /\ i = 0
    /\ markers_index = <<>>
    /\ min_markers = [isfloat |-> FALSE, twice |-> 2]
    /\ genomes_to_keep = <<>>
    /\ output_written = FALSE

InitBuild ==
    /\ pc = "filter_copies"
    /\ err = "none"
    /\ \E len \in 0..MaxRecords :
        \E g \in [1..len -> GenomeLabels], f \in [1..len -> FamilyLabels],
           b \in [1..len -> BitScores] :
            df = [r \in 1..len |->
                    [orf |-> r, genome |-> g[r], gene_family |-> f[r], bit_score |-> b[r]]]
    /\ threshold \in ThresholdValues
    /\ filtered_df = <<>>
    /\ edges_genes = <<>>
    /\ edges_genomes = <<>>
    /\ built = <<>>
    /\ NoSelection
    /\ remove = <<>>
    /\ genes_mod = <<>>
    /\ markers_names = <<>>

\* lines 162-171
FilterCopies ==
    /\ pc = "filter_copies"
    /\ IF ~ThresholdInRange(threshold)
         THEN /\ Raise("Threshold should be a value between 0 and 1.")
              /\ UNCHANGED filtered_df
         ELSE /\ filtered_df' = FilterByMask(df, threshold)
              /\ pc' = "get_edges"
              /\ err' = err
    /\ UNCHANGED <<df, threshold, edges_genes, edges_genomes, built>>
    /\ UNCHANGED selVars
    /\ UNCHANGED sparseVars

\* lines 173-177
GetEdges ==
    /\ pc = "get_edges"
    /\ edges_genomes' = Column(filtered_df, "genome")
    /\ edges_genes' = Column(filtered_df, "gene_family")
    /\ pc' = "build_matrix"
    /\ UNCHANGED <<err, df, threshold, filtered_df, built>>
    /\ UNCHANGED selVars
    /\ UNCHANGED sparseVars

\* lines 179-187; reshape raises when the number of bins is not
\* len(genes) * len(genomes)
BuildCopyNumberMatrix ==
    /\ pc = "build_matrix"
    /\ LET genes == Unique(edges_genes)
           genes_indices == UniqueInverse(edges_genes)
           genomes == Unique(edges_genomes)
           genomes_indices == UniqueInverse(edges_genomes)
           bins == Bincount(
                     [e \in DOMAIN edges_genes |->
                        FlatIndex(genes_indices[e], genomes_indices[e],
                                  Len(genes), Len(genomes))],
                     Len(genes) * Len(genomes))
       IN  IF Len(bins) # Len(genes) * Len(genomes)
             THEN Raise("cannot reshape array") /\ UNCHANGED built
             ELSE /\ built' = [adj |-> [n |-> Len(genes), m |-> Len(genomes),
                                        rows |-> Reshape(bins, Len(genes), Len(genomes))],
                               genomes |-> genomes,
                               genes |-> genes]
                  /\ pc' = "matrix_built"
                  /\ err' = err
    /\ UNCHANGED <<df, threshold, filtered_df, edges_genes, edges_genomes>>
    /\ UNCHANGED selVars
    /\ UNCHANGED sparseVars

NextBuild ==
    \/ FilterCopies
    \/ GetEdges
    \/ BuildCopyNumberMatrix

SpecBuild == InitBuild /\ [][NextBuild]_vars

----------------------------------------------------------------------------
(* Properties of SpecBuild *)

C8_SameGroup(a, b) == a.genome = b.genome /\ a.gene_family = b.gene_family

C8_GroupMax(rec) ==
    CHOOSE x \in {df[q].bit_score : q \in {q2 \in DOMAIN df : C8_SameGroup(df[q2], rec)}} :
        \A q \in DOMAIN df : C8_SameGroup(df[q], rec) => df[q].bit_score <= x

C8_Retained == Range(filtered_df)

C8_Filtered == pc \in {"get_edges", "build_matrix", "matrix_built"}

\* C8: for t in [0, 1] filter_copies keeps, in their order, exactly the
\* records with bit_score >= t * (maximum of their (genome, gene_family)
\* group): all of them for t = 0, exactly those equal to the group maximum
\* for t = 1 (scores 10, 10, 7 keep both 10s), at least one per group; for
\* t outside [0, 1] it raises and returns no table.
C8_KeepsCopiesNearGroupMaximum ==
    /\ (C8_Filtered /\ 0 <= threshold /\ threshold <= 2) =>
        /\ \A r \in DOMAIN df :
            df[r] \in C8_Retained <=> 2 * df[r].bit_score >= threshold * C8_GroupMax(df[r])
        /\ C8_Retained \subseteq Range(df)
        /\ \A a, b \in DOMAIN filtered_df : a < b => filtered_df[a].orf < filtered_df[b].orf
        /\ threshold = 0 => filtered_df = df
        /\ threshold = 2 =>
            \A r \in DOMAIN df :
                df[r] \in C8_Retained <=> df[r].bit_score = C8_GroupMax(df[r])
        /\ \A r \in DOMAIN df : \E rec \in C8_Retained : C8_SameGroup(rec, df[r])
        /\ ([r \in DOMAIN df |-> df[r].bit_score] = <<10, 10, 7>>
                /\ C8_SameGroup(df[1], df[2]) /\ C8_SameGroup(df[2], df[3]))
            => /\ threshold = 2 => filtered_df = <<df[1], df[2]>>
               /\ threshold = 0 => filtered_df = df
    /\ (threshold < 0 \/ threshold > 2) =>
        /\ pc \in {"filter_copies", "error"}
        /\ pc = "error" => err = "Threshold should be a value between 0 and 1."
        /\ filtered_df = <<>>
        /\ built = <<>>

C8_Witness ==
    /\ pc = "get_edges"
    /\ threshold = 2
    /\ [r \in DOMAIN df |-> df[r].bit_score] = <<10, 10, 7>>
    /\ C8_SameGroup(df[1], df[2])
    /\ C8_SameGroup(df[2], df[3])
    /\ Len(filtered_df) = 2

C9_Edges(g, s) == {e \in DOMAIN edges_genes : edges_genes[e] = g /\ edges_genomes[e] = s}

C9_Increasing(v) == \A a, b \in DOMAIN v : a < b => v[a] < v[b]

\* C9: build_copy_number_matrix never raises, also on no edges; the labels
\* it returns are the distinct genes and genomes of the edge list in
\* increasing order, the matrix has one row per gene label and one column
\* per genome label, entry [i][j] is the number of edges of gene i and
\* genome j, and the entries total the number of edges.
C9_MatrixCountsEdges ==
    /\ pc = "error" => err = "Threshold should be a value between 0 and 1."
    /\ pc = "matrix_built" =>
        /\ C9_Increasing(built.genes)
        /\ C9_Increasing(built.genomes)
        /\ Range(built.genes) = Range(edges_genes)
        /\ Range(built.genomes) = Range(edges_genomes)
        /\ built.adj.n = Len(built.genes)
        /\ built.adj.m = Len(built.genomes)
        /\ Len(built.adj.rows) = built.adj.n
        /\ \A r \in 1..built.adj.n :
            /\ Len(built.adj.rows[r]) = built.adj.m
            /\ \A c \in 1..built.adj.m :
                built.adj.rows[r][c] = Cardinality(C9_Edges(built.genes[r], built.genomes[c]))
        /\ SumSeq([r \in 1..built.adj.n |-> SumSeq(built.adj.rows[r])]) = Len(edges_genes)
        /\ edges_genes = <<>> => built.adj = [n |-> 0, m |-> 0, rows |-> <<>>]

C9_Witness ==
    /\ pc = "matrix_built"
    /\ Len(built.genes) = 2
    /\ Len(built.genomes) = 1
    /\ built.adj.rows = << <<1>>, <<2>> >>

----------------------------------------------------------------------------
(* SpecSparse: run_TMarSel, lines 438-451 *)

\* most rows (gene families) of a built matrix
MaxFullRows == 4

\* rows of the built matrices, over five genomes: present in 5, 4, 4, 3, 3
\* and 1 genomes
SparseRowPatterns ==
    {<<1, 1, 1, 1, 1>>, <<1, 1, 1, 1, 0>>, <<0, 2, 1, 1, 1>>,
     <<1, 1, 1, 0, 0>>, <<0, 0, 3, 1, 1>>, <<0, 0, 0, 0, 1>>}

\* what build_copy_number_matrix returns: every gene and every genome
\* occurs in an edge, so no row and no column of the matrix is all zero
InitSparse ==
    /\ pc = "remove_genes"
    /\ err = "none"
    /\ \E n \in 1..MaxFullRows :
        \E rows \in {r \in [1..n -> SparseRowPatterns] :
                        \A s \in 1..5 : \E j \in 1..n : r[j][s] # 0} :
            built = [adj |-> Matrix(rows, 5),
                     genomes |-> [s \in 1..5 |-> s],
                     genes |-> GeneLabels(n)]
    /\ k \in {1, 2}
    /\ p \in {StrP("min"), IntP(0)}
    /\ pseudocount = 1
    /\ adj = [n |-> 0, m |-> 0, rows |-> <<>>]
    /\ data = <<>>
    /\ counts = <<>>
    /\ indices = <<>>
    /\ selected = <<>>
    /\ i = 0
    /\ markers_index = <<>>
    /\ min_markers = [isfloat |-> FALSE, twice |-> 2]
    /\ genomes_to_keep = <<>>
    /\ output_written = FALSE
    /\ df = <<>>
    /\ threshold = 0
    /\ filtered_df = <<>>
    /\ edges_genes = <<>>
    /\ edges_genomes = <<>>
    /\ remove = <<>>
    /\ genes_mod = <<>>
    /\ markers_names = <<>>

\* line 438 with lines 190-202
CallRemoveGenes ==
    /\ pc = "remove_genes"
    /\ remove' = RemoveGenes(built.adj.rows)
    /\ pc' = "delete_genes"
    /\ UNCHANGED <<err, genes_mod, markers_names>>
    /\ UNCHANGED selVars
    /\ UNCHANGED buildVars

\* lines 439-440: genes_mod and adj_mod
DeleteRemovedGenes ==
    /\ pc = "delete_genes"
    /\ genes_mod' = Delete(built.genes, remove)
    /\ adj' = Matrix(Delete(built.adj.rows, remove), built.adj.m)
    /\ pc' = "greedy_entry"
    /\ UNCHANGED <<err, remove, markers_names>>
    /\ UNCHANGED <<k, p, pseudocount, data, counts, indices, selected, i,
                   markers_index, min_markers, genomes_to_keep, output_written>>
    /\ UNCHANGED buildVars

NextSparse ==
    \/ CallRemoveGenes
    \/ DeleteRemovedGenes
    \/ GreedyEntry
    \/ GreedyIteration
    \/ GreedyReturn
    \/ GetGenomesToKeep
    \/ SaveMarkerOrfs

SpecSparse == InitSparse /\ [][NextSparse]_vars

----------------------------------------------------------------------------
(* Properties of SpecSparse *)

C11_NonzeroColumns(j) == Cardinality({s \in 1..built.adj.m : built.adj.rows[j][s] # 0})

\* the 1-based positions in the built matrix of the rows present in at
\* least 4 genomes, in increasing order
C11_Kept ==
    SelectSeq([j \in 1..built.adj.n |-> j], LAMBDA j : C11_NonzeroColumns(j) >= 4)

\* C11: remove_genes returns exactly the row indices with fewer than 4
\* non-zero columns (a row with exactly 4 is kept); after the deletion every
\* row of the reduced matrix has at least 4 non-zero columns and row r of
\* it, with its label, is the r-th kept row of the built matrix; the names
\* looked up for the selected indices are the labels of the built rows
\* whose values make up the cumulative coverage.
C11_SparseRowsRemovedLabelsAligned ==
    /\ pc # "remove_genes" =>
        /\ Range(remove) = {j - 1 : j \in {q \in 1..built.adj.n : C11_NonzeroColumns(q) < 4}}
        /\ \A a, b \in DOMAIN remove : a < b => remove[a] < remove[b]
    /\ pc \notin {"remove_genes", "delete_genes"} =>
        /\ adj.n = Len(C11_Kept)
        /\ adj.m = built.adj.m
        /\ Len(adj.rows) = adj.n
        /\ Len(genes_mod) = adj.n
        /\ \A r \in 1..adj.n :
            /\ Cardinality({s \in 1..adj.m : adj.rows[r][s] # 0}) >= 4
            /\ adj.rows[r] = built.adj.rows[C11_Kept[r]]
            /\ genes_mod[r] = built.genes[C11_Kept[r]]
    /\ pc = "done" =>
        /\ Len(markers_names) = Len(markers_index)
        /\ \A t \in DOMAIN markers_index :
            markers_names[t] = built.genes[C11_Kept[markers_index[t] + 1]]
        /\ \A s \in 1..adj.m :
            counts[s] = SumSeq([t \in DOMAIN markers_index |->
                10 * built.adj.rows[C11_Kept[markers_index[t] + 1]][s] + pseudocount])

\* the first built row is removed, so every kept row has moved up
C11_Witness ==
    /\ pc = "done"
    /\ Len(remove) >= 1
    /\ remove[1] = 0
    /\ built.adj.rows[2] = <<1, 1, 1, 1, 0>>
    /\ Len(markers_names) = 2

====
